---- MODULE Spec2Model ----
(***************************************************************************)
(* Smart Meeting Scheduler (browser extension): the scheduling-request     *)
(* interpreter (AIProcessor, BackgroundService, TimezoneHandler) and the   *)
(* availability slot finder (CalendarService).                             *)
(*                                                                         *)
(* Instants are whole minutes on the local wall clock, counted from 00:00  *)
(* of day 0 (no DST change inside the modelled days).                      *)
(***************************************************************************)
EXTENDS Integers, Sequences, FiniteSets, TLC

VARIABLES
  \* CalendarService.findAvailableSlots: arguments and loop state
  startDate, endDate, busySlots, duration, currentTime, slots, fsPc,
  \* TimezoneHandler.parseRelativeTime: arguments and returned value
  rtText, rtRef, rtResult,
  \* TimezoneHandler.parseTimezoneFromText: argument and returned value
  tzText, tzResult,
  \* BackgroundService / AIProcessor: the message being processed (command,
  \* context), the environment (system time zone, what chrono.parse returns
  \* for the command, the stored API key), and the handler's state
  command, context, sys, chrono, storedKey, apiKey, keyLoad,
  pPc, keyAtCall, localResult, parseFetchOutcome, aiOutcome, parsedData,
  validation, meetingDetails, parseFetches, messageFetches, responses,
  \* the value an earlier call of localParse returned
  firstResult,
  \* TimezoneHandler.suggestMeetingTimes: arguments and returned value
  sgArgs, sgResult, sgPc,
  \* BackgroundService.createMeeting: the request's details, whether the
  \* platform's credentials are stored, the handler's position, the meeting
  \* link, the provider calls that failed, the requests sent to each
  \* provider, the messages handed to the LinkedIn tab, the responses
  cmDetails, cmCredentials, cmPc, cmLink, cmFailed, cmRequests, cmInjected, cmResponses,
  \* StorageService: the userSettings object kept in chrome.storage.sync
  userSettings,
  \* BackgroundService.handleMessage: for each message in flight its action,
  \* the handler's position and the number of sendResponse calls
  msgs,
  \* CalendarService.createEvent: its argument, the system's zone, the
  \* position in the call and the event sent to the calendar
  evDetails, evSystem, evPc, evSent,
  \* VoiceInputController: its fields, the recognizer's state, each click's
  \* toggleVoiceRecognition call and each microphone stream
  recognition, isListening, micStream, toggles, streams

slotVars == <<startDate, endDate, busySlots, duration, currentTime, slots, fsPc>>
relVars == <<rtText, rtRef, rtResult>>
tzVars == <<tzText, tzResult>>
cmdVars == <<command, context, sys, chrono, storedKey, apiKey, keyLoad,
             pPc, keyAtCall, localResult, parseFetchOutcome, aiOutcome, parsedData,
             validation, meetingDetails, parseFetches, messageFetches, responses>>

repeatVars == <<firstResult>>
\* the variables of the components added after the four above
suggestVars == <<sgArgs, sgResult, sgPc>>
meetingVars == <<cmDetails, cmCredentials, cmPc, cmLink, cmFailed, cmRequests,
                 cmInjected, cmResponses>>
settingsVars == <<userSettings>>
\* the components that stand behind createMeeting in this module
messageVars == <<msgs>>
eventVars == <<evDetails, evSystem, evPc, evSent>>
voiceVars == <<recognition, isListening, micStream, toggles, streams>>
laterVars == <<settingsVars, messageVars, eventVars, voiceVars>>
extraVars == <<repeatVars, suggestVars, meetingVars, laterVars>>

vars == <<slotVars, relVars, tzVars, cmdVars, extraVars>>

\* what the operations of one component leave alone
notSlotVars == <<relVars, tzVars, cmdVars, extraVars>>
notRelVars == <<slotVars, tzVars, cmdVars, extraVars>>
notTzVars == <<slotVars, relVars, cmdVars, extraVars>>
notCmdVars == <<slotVars, relVars, tzVars, extraVars>>

\* a component that takes no part in a specification
Idle == [k |-> "idle"]
\* a call that has not returned yet
Pending == [k |-> "pending"]

SlotsIdle ==
  /\ startDate = Idle /\ endDate = Idle /\ busySlots = Idle /\ duration = Idle
  /\ currentTime = Idle /\ slots = Idle /\ fsPc = "idle"
RelIdle == rtText = Idle /\ rtRef = Idle /\ rtResult = Idle
TzIdle == tzText = Idle /\ tzResult = Idle
CmdIdle ==
  /\ command = Idle /\ context = Idle /\ sys = Idle /\ chrono = Idle
  /\ storedKey = Idle /\ apiKey = Idle /\ keyLoad = "idle" /\ pPc = "idle"
  /\ keyAtCall = Idle /\ localResult = Idle /\ parseFetchOutcome = Idle
  /\ aiOutcome = Idle /\ parsedData = Idle /\ validation = Idle /\ meetingDetails = Idle
  /\ parseFetches = 0 /\ messageFetches = 0 /\ responses = <<>>
RepeatIdle == firstResult = Idle
SuggestIdle == sgArgs = Idle /\ sgResult = Idle /\ sgPc = "idle"
MeetingIdle ==
  /\ cmDetails = Idle /\ cmCredentials = Idle /\ cmPc = "idle" /\ cmLink = Idle
  /\ cmFailed = {} /\ cmRequests = Idle /\ cmInjected = 0 /\ cmResponses = <<>>
SettingsIdle == userSettings = Idle
MessagesIdle == msgs = Idle
EventIdle == evDetails = Idle /\ evSystem = Idle /\ evPc = "idle" /\ evSent = Idle
VoiceIdle ==
  /\ recognition = "idle" /\ isListening = FALSE /\ micStream = Idle
  /\ toggles = Idle /\ streams = Idle
LaterIdle == SettingsIdle /\ MessagesIdle /\ EventIdle /\ VoiceIdle
ExtraIdle == RepeatIdle /\ SuggestIdle /\ MeetingIdle /\ LaterIdle

-----------------------------------------------------------------------------
(* Bounds of the model *)

MaxDays == 2          \* the scan window spans at most this many days
MaxBusy == 2          \* busy intervals per query
MaxDurQuarters == 6   \* durations are 15, 30, ... 15 * MaxDurQuarters minutes
MaxTzTextLen == 2     \* tokens in a text given to parseTimezoneFromText
MaxRelTextLen == 2    \* tokens in a text given to parseRelativeTime
MaxRefDays == 7       \* consecutive reference days given to parseRelativeTime
MaxCmdLen == 3        \* tokens in a command given to localParse

-----------------------------------------------------------------------------
(* Date arithmetic of the JavaScript Date object, in minutes *)

MinutesPerDay == 24 * 60

\* Date.prototype.getHours
getHours(t) == (t % MinutesPerDay) \div 60

\* Date.prototype.setHours(h, 0, 0, 0): same day, h o'clock
setHours(t, h) == (t \div MinutesPerDay) * MinutesPerDay + h * 60

\* a setDate that leaves the day as it is
addNoDay(t) == t
\* currentTime.setDate(currentTime.getDate() + 1)
addOneDay(t) == t + MinutesPerDay

-----------------------------------------------------------------------------
(* CalendarService.findAvailableSlots *)

businessHoursStart == 9
businessHoursEnd == 17
slotStepMinutes == 30

\* the callback of busySlots.some(...)
\* the test with both ends of the busy interval closed
BusyConflictClosed(cur, slotEnd, busy) ==
  \/ (cur >= busy.start /\ cur <= busy.end)
  \/ (slotEnd >= busy.start /\ slotEnd <= busy.end)

BusyConflict(cur, slotEnd, busy) ==
  \/ (cur >= busy.start /\ cur < busy.end)
  \/ (slotEnd > busy.start /\ slotEnd <= busy.end)

isAvailable(cur, slotEnd, busyList) ==
  ~ \E i \in 1..Len(busyList) : BusyConflict(cur, slotEnd, busyList[i])

\* if (slotEnd.getHours() > businessHoursEnd)
OutsideBusinessHours(slotEnd) == getHours(slotEnd) > businessHoursEnd

\* inputs of the query
StartDates == {0, 10 * 60 + 30}
BusyPoints == {9 * 60 + 15, 9 * 60 + 30, 10 * 60, 10 * 60 + 30}
BusyIntervals ==
  {[start |-> p[1], end |-> p[2]] : p \in {q \in BusyPoints \X BusyPoints : q[1] < q[2]}}
BusyLists == UNION {[1..n -> BusyIntervals] : n \in 0..MaxBusy}
Durations == {15 * k : k \in 1..MaxDurQuarters}
EndDates(sd) == {setHours(sd, 0) + d * MinutesPerDay : d \in 1..MaxDays}

InitSlots ==
  /\ startDate \in StartDates
  /\ endDate \in EndDates(startDate)
  /\ busySlots \in BusyLists
  /\ duration \in Durations
  /\ currentTime = setHours(startDate, businessHoursStart)
  /\ slots = <<>>
  /\ fsPc = "loop"
  /\ RelIdle /\ TzIdle /\ CmdIdle /\ ExtraIdle

\* one iteration of while (currentTime < endDate) that takes the rollover branch
FindSlotsRollover ==
  /\ fsPc = "loop"
  /\ currentTime < endDate
  /\ OutsideBusinessHours(currentTime + duration)
  /\ currentTime' = setHours(addOneDay(currentTime), businessHoursStart)
  /\ UNCHANGED <<startDate, endDate, busySlots, duration, slots, fsPc>>
  /\ UNCHANGED notSlotVars

\* one iteration that examines the candidate and steps 30 minutes
FindSlotsCandidate ==
  /\ fsPc = "loop"
  /\ currentTime < endDate
  /\ ~OutsideBusinessHours(currentTime + duration)
  /\ slots' = IF isAvailable(currentTime, currentTime + duration, busySlots)
                THEN Append(slots, [start |-> currentTime, end |-> currentTime + duration])
                ELSE slots
  /\ currentTime' = currentTime + slotStepMinutes
  /\ UNCHANGED <<startDate, endDate, busySlots, duration, fsPc>>
  /\ UNCHANGED notSlotVars

\* the loop condition fails: return slots
FindSlotsReturn ==
  /\ fsPc = "loop"
  /\ ~(currentTime < endDate)
  /\ fsPc' = "done"
  /\ UNCHANGED <<startDate, endDate, busySlots, duration, currentTime, slots>>
  /\ UNCHANGED notSlotVars

NextSlots == FindSlotsRollover \/ FindSlotsCandidate \/ FindSlotsReturn

SpecSlots == InitSlots /\ [][NextSlots]_vars

-----------------------------------------------------------------------------
(* Claims about findAvailableSlots *)

Intersects(slot, busy) == slot.start < busy.end /\ busy.start < slot.end

\* C1: no slot returned by findAvailableSlots intersects any busy interval
\* (slot.start < busy.end and busy.start < slot.end never both hold).
C1_NoSlotIntersectsBusy ==
  fsPc = "done" =>
    \A i \in 1..Len(slots) : \A j \in 1..Len(busySlots) :
      ~Intersects(slots[i], busySlots[j])

\* C2: every returned slot starts at or after 09:00 and ends at or before
\* 17:00 of the same calendar day.
C2_SlotsWithinBusinessHours ==
  fsPc = "done" =>
    \A i \in 1..Len(slots) :
      /\ slots[i].start >= setHours(slots[i].start, businessHoursStart)
      /\ slots[i].end <= setHours(slots[i].start, businessHoursEnd)

-----------------------------------------------------------------------------
(* JavaScript values *)

Null == [k |-> "null"]
Undefined == [k |-> "undefined"]
\* a string, a number
S(s) == [k |-> "str", v |-> s]
N(n) == [k |-> "num", v |-> n]

-----------------------------------------------------------------------------
(* Text.  A text is the sequence of its tokens, separated by single spaces: *)
(* a word (a maximal run of letters) or a number literal (its integer      *)
(* digits ip and, when it has a decimal point, its fraction digits fp).    *)

W(s) == [k |-> "w", s |-> s]
Num(n) == [k |-> "n", ip |-> n, fp |-> -1]
Decimal(n, f) == [k |-> "n", ip |-> n, fp |-> f]

\* String.prototype.toLowerCase on the words of the vocabulary
toLowerCase(w) ==
  CASE w = "PST" -> "pst"
    [] w = "EST" -> "est"
    [] w = "Paris" -> "paris"
    [] w = "Friday" -> "friday"
    [] w = "This" -> "this"
    [] w = "Zoom" -> "zoom"
    [] w = "ASAP" -> "asap"
    [] w = "CEST" -> "cest"
    [] OTHER -> w

\* the lower-case word at position i ("#" for a number literal)
lowerWordAt(text, i) == IF text[i].k = "w" THEN toLowerCase(text[i].s) ELSE "#"

\* w ends with / starts with the letters of x (on the words of the vocabulary)
EndsWith(w, x) ==
  \/ w = x
  \/ <<w, x>> \in {<<"angela", "la">>, <<"gmeet", "meet">>}
StartsWith(w, x) ==
  \/ w = x
  \/ <<w, x>> \in {<<"minutes", "minute">>, <<"minutes", "min">>, <<"minute", "min">>,
                   <<"mins", "min">>, <<"hours", "hour">>, <<"meeting", "meet">>}
Includes(w, x) == StartsWith(w, x) \/ EndsWith(w, x)

-----------------------------------------------------------------------------
(* TimezoneHandler.parseTimezoneFromText *)

\* An alternative of a pattern: the words it spells; openLeft when it has no
\* leading \b (its first word may end a longer word), openRight when it has
\* no trailing \b (its last word may begin a longer word).
Alt(ws) == [words |-> ws, openLeft |-> FALSE, openRight |-> FALSE]
AltOpenRight(ws) == [words |-> ws, openLeft |-> FALSE, openRight |-> TRUE]
AltOpenLeft(ws) == [words |-> ws, openLeft |-> TRUE, openRight |-> FALSE]

Entry(alts, tz) == [pattern |-> alts, timezone |-> tz]

timezonePatterns == <<
  Entry({Alt(<<"est">>), Alt(<<"edt">>), Alt(<<"eastern">>)}, "America/New_York"),
  Entry({Alt(<<"cst">>), Alt(<<"cdt">>), Alt(<<"central">>)}, "America/Chicago"),
  Entry({Alt(<<"mst">>), Alt(<<"mdt">>), Alt(<<"mountain">>)}, "America/Denver"),
  Entry({Alt(<<"pst">>), Alt(<<"pdt">>), Alt(<<"pacific">>)}, "America/Los_Angeles"),
  Entry({Alt(<<"gmt">>), Alt(<<"utc">>)}, "Europe/London"),
  Entry({Alt(<<"bst">>), Alt(<<"london">>)}, "Europe/London"),
  Entry({Alt(<<"cet">>), Alt(<<"paris">>), Alt(<<"berlin">>)}, "Europe/Paris"),
  Entry({Alt(<<"ist">>), Alt(<<"india">>)}, "Asia/Kolkata"),
  Entry({Alt(<<"jst">>), Alt(<<"japan">>), Alt(<<"tokyo">>)}, "Asia/Tokyo"),
  Entry({Alt(<<"aest">>), Alt(<<"sydney">>), Alt(<<"australia">>)}, "Australia/Sydney"),
  Entry({Alt(<<"new", "york">>)}, "America/New_York"),
  Entry({Alt(<<"chicago">>)}, "America/Chicago"),
  Entry({AltOpenRight(<<"los", "angeles">>), AltOpenLeft(<<"la">>)}, "America/Los_Angeles"),
  Entry({AltOpenRight(<<"san", "francisco">>), AltOpenLeft(<<"sf">>)}, "America/Los_Angeles"),
  Entry({Alt(<<"seattle">>)}, "America/Los_Angeles"),
  Entry({Alt(<<"denver">>)}, "America/Denver"),
  Entry({Alt(<<"london">>)}, "Europe/London"),
  Entry({Alt(<<"paris">>)}, "Europe/Paris"),
  Entry({Alt(<<"berlin">>)}, "Europe/Berlin"),
  Entry({Alt(<<"dubai">>)}, "Asia/Dubai"),
  Entry({Alt(<<"singapore">>)}, "Asia/Singapore"),
  Entry({Alt(<<"hong", "kong">>)}, "Asia/Hong_Kong"),
  Entry({Alt(<<"tokyo">>)}, "Asia/Tokyo"),
  Entry({Alt(<<"sydney">>)}, "Australia/Sydney") >>

\* the alternative matches the text at position i (case-insensitively)
AltMatchesAt(alt, text, i) ==
  LET n == Len(alt.words) IN
  /\ i + n - 1 <= Len(text)
  /\ \A j \in 1..n :
       LET w == lowerWordAt(text, i + j - 1) IN
       IF j = 1 /\ alt.openLeft THEN EndsWith(w, alt.words[j])
       ELSE IF j = n /\ alt.openRight THEN StartsWith(w, alt.words[j])
       ELSE w = alt.words[j]

\* pattern.test(text)
PatternTest(pattern, text) ==
  \E alt \in pattern : \E i \in 1..Len(text) : AltMatchesAt(alt, text, i)

\* for (const { pattern, timezone } of timezonePatterns), from entry i on
RECURSIVE TimezoneScan(_, _)
TimezoneScanLast(text, i) ==
  LET hits == {j \in i..Len(timezonePatterns) : PatternTest(timezonePatterns[j].pattern, text)} IN
  IF hits = {} THEN Null
  ELSE S(timezonePatterns[CHOOSE j \in hits : \A h \in hits : h <= j].timezone)

TimezoneScan(text, i) ==
  IF i > Len(timezonePatterns) THEN Null
  ELSE IF PatternTest(timezonePatterns[i].pattern, text) THEN S(timezonePatterns[i].timezone)
  ELSE TimezoneScan(text, i + 1)

parseTimezoneFromText(text) == TimezoneScan(text, 1)

TzWords == {"PST", "est", "Paris", "berlin", "new", "york", "angela", "on", "gibberish"}
\* "I'm on PST tonight", "see you in gibberish"
TextOnPST == <<W("I"), W("m"), W("on"), W("PST"), W("tonight")>>
TextGibberish == <<W("see"), W("you"), W("in"), W("gibberish")>>
TzTexts ==
  UNION {[1..n -> {W(w) : w \in TzWords}] : n \in 0..MaxTzTextLen}
    \cup {TextOnPST, TextGibberish}

InitTz ==
  /\ tzText \in TzTexts
  /\ tzResult = Pending
  /\ SlotsIdle /\ RelIdle /\ CmdIdle /\ ExtraIdle

ParseTimezoneCall ==
  /\ tzResult = Pending
  /\ tzResult' = parseTimezoneFromText(tzText)
  /\ UNCHANGED tzText
  /\ UNCHANGED notTzVars

NextTz == ParseTimezoneCall

SpecTz == InitTz /\ [][NextTz]_vars

\* the entries of the table whose pattern matches the text
MatchingEntries(text) ==
  {j \in 1..Len(timezonePatterns) : PatternTest(timezonePatterns[j].pattern, text)}

\* C9: parseTimezoneFromText returns the timezone of the first entry, in
\* declared table order, whose pattern matches the text, and null when no
\* entry matches; "I'm on PST tonight" yields America/Los_Angeles.
C9_FirstMatchingEntryWins ==
  tzResult \notin {Idle, Pending} =>
    /\ (MatchingEntries(tzText) = {} <=> tzResult = Null)
    /\ \A j \in MatchingEntries(tzText) :
         (\A h \in MatchingEntries(tzText) : j <= h) => tzResult = S(timezonePatterns[j].timezone)
    /\ (tzText = TextOnPST => tzResult = S("America/Los_Angeles"))
    /\ (tzText = TextGibberish => tzResult = Null)

\* two entries match ("est" is entry 1, "Paris" entry 7 and entry 18) and the
\* earlier one was returned
C9_Witness ==
  /\ tzText = <<W("Paris"), W("est")>>
  /\ tzResult = S("America/New_York")

-----------------------------------------------------------------------------
(* TimezoneHandler.parseRelativeTime *)

\* a Date object: the instant it holds
DateV(t) == [k |-> "date", t |-> t]

\* moment.js on instants; day 0 of the model is a Sunday and the locale's
\* week starts on Sunday, which moment numbers 0
momentWeekdays == <<"sunday", "monday", "tuesday", "wednesday", "thursday", "friday", "saturday">>
dayOf(t) == t \div MinutesPerDay
\* moment().day()
momentGetDay(t) == dayOf(t) % 7
\* moment().day(n): the day numbered n of the current week, same time of day
momentSetDay(t, n) == t + (n - momentGetDay(t)) * MinutesPerDay
\* moment().startOf('week')
momentStartOfWeek(t) == (dayOf(t) - momentGetDay(t)) * MinutesPerDay
\* a.isBefore(b, 'day')
momentIsBeforeDay(a, b) == dayOf(a) < dayOf(b)
\* moment().add(n, unit)
momentAdd(t, n, unit) ==
  IF unit = "week" THEN t + n * 7 * MinutesPerDay ELSE t + n * MinutesPerDay

daysOfWeek == <<"monday", "tuesday", "wednesday", "thursday", "friday", "saturday", "sunday">>
\* daysOfWeek.indexOf(dayName)
daysOfWeekIndexOf(dayName) == (CHOOSE i \in 1..Len(daysOfWeek) : daysOfWeek[i] = dayName) - 1
DayNames == {daysOfWeek[i] : i \in 1..Len(daysOfWeek)}

\* /\bw\b/.test(lowerText)
TestWord(text, w) == \E i \in 1..Len(text) : lowerWordAt(text, i) = w
\* /\ba b\b/.test(lowerText)
TestPhrase(text, a, b) ==
  \E i \in 1..Len(text) - 1 : lowerWordAt(text, i) = a /\ lowerWordAt(text, i + 1) = b

\* positions where /\b(next|this)\s+(monday|...|sunday)\b/ matches
DayMatches(text) ==
  {i \in 1..Len(text) - 1 :
     /\ lowerWordAt(text, i) \in {"next", "this"}
     /\ lowerWordAt(text, i + 1) \in DayNames}
\* positions where /\bin\s+(\d+)\s+(day|days|week|weeks)\b/ matches
InUnits == {"day", "days", "week", "weeks"}
InMatches(text) ==
  {i \in 1..Len(text) - 2 :
     /\ lowerWordAt(text, i) = "in"
     /\ text[i + 1].k = "n" /\ text[i + 1].fp = -1
     /\ lowerWordAt(text, i + 2) \in InUnits}
\* String.prototype.match returns the leftmost match
Leftmost(ps) == CHOOSE i \in ps : \A j \in ps : i <= j
\* unit.replace(/s$/, '')
StripPlural(u) == IF u = "days" THEN "day" ELSE IF u = "weeks" THEN "week" ELSE u

\* the branch for "next|this <weekday>"
WeekdayBranch(text, now) ==
  LET i == Leftmost(DayMatches(text))
      modifier == lowerWordAt(text, i)
      dayName == lowerWordAt(text, i + 1)
      targetDay == daysOfWeekIndexOf(dayName)
      targetDate == momentSetDay(now, targetDay)
  IN IF modifier = "next" \/ momentIsBeforeDay(targetDate, now)
       THEN DateV(momentAdd(targetDate, 1, "week"))
       ELSE DateV(targetDate)

parseRelativeTime(text, now) ==
  IF TestWord(text, "today") THEN DateV(now)
  ELSE IF TestWord(text, "tomorrow") THEN DateV(momentAdd(now, 1, "day"))
  ELSE IF TestWord(text, "yesterday") THEN DateV(momentAdd(now, -1, "day"))
  ELSE IF TestPhrase(text, "next", "week") THEN DateV(momentStartOfWeek(momentAdd(now, 1, "week")))
  ELSE IF TestPhrase(text, "this", "week") THEN DateV(momentStartOfWeek(now))
  ELSE IF DayMatches(text) # {} THEN WeekdayBranch(text, now)
  ELSE IF InMatches(text) # {}
    THEN LET i == Leftmost(InMatches(text)) IN
         DateV(momentAdd(now, text[i + 1].ip, StripPlural(lowerWordAt(text, i + 2))))
  ELSE Null

RelTokens ==
  {W(w) : w \in DayNames \cup {"this", "This", "next", "Friday", "today", "week", "in", "days"}}
    \cup {Num(2)}
RelTexts == UNION {[1..n -> RelTokens] : n \in 0..MaxRelTextLen}
\* reference instants: each weekday, at midnight and in the afternoon
RefInstants ==
  {d * MinutesPerDay + m : d \in 7..(6 + MaxRefDays), m \in {0, 13 * 60 + 45}}

InitRel ==
  /\ rtText \in RelTexts
  /\ rtRef \in RefInstants
  /\ rtResult = Pending
  /\ SlotsIdle /\ TzIdle /\ CmdIdle /\ ExtraIdle

ParseRelativeTimeCall ==
  /\ rtResult = Pending
  /\ rtResult' = parseRelativeTime(rtText, rtRef)
  /\ UNCHANGED <<rtText, rtRef>>
  /\ UNCHANGED notRelVars

NextRel == ParseRelativeTimeCall

SpecRel == InitRel /\ [][NextRel]_vars

\* the name of the weekday an instant falls on
WeekdayName(t) == momentWeekdays[(dayOf(t) % 7) + 1]

\* C7: parseRelativeTime('this <weekday>') returns a date on the named
\* weekday, the first occurrence on or after the reference day (this week's
\* if not yet passed, else the following week's); from a Wednesday, 'this
\* Friday' is 2 days later and 'this Monday' 5 days later.
C7_ThisWeekdayResolves ==
  \A d \in DayNames :
    (rtText = <<W("this"), W(d)>> /\ rtResult \notin {Idle, Pending}) =>
      /\ rtResult.k = "date"
      /\ WeekdayName(rtResult.t) = d
      /\ dayOf(rtResult.t) - dayOf(rtRef) \in 0..6
      /\ (WeekdayName(rtRef) = "wednesday" /\ d = "friday"
            => dayOf(rtResult.t) = dayOf(rtRef) + 2)
      /\ (WeekdayName(rtRef) = "wednesday" /\ d = "monday"
            => dayOf(rtResult.t) = dayOf(rtRef) + 5)

-----------------------------------------------------------------------------
(* Objects and truthiness *)

\* strings in the two formats the request carries: "YYYY-MM-DD" of UTC day d,
\* and "HH:MM"
DateStr(d) == [k |-> "datestr", day |-> d]
TimeStr(h, m) == [k |-> "timestr", h |-> h, m |-> m]

\* an object is the function from its own property names to their values
IsNullish(v) == v = Null \/ v = Undefined
IsObject(v) == "k" \notin DOMAIN v

\* ToBoolean, as `if (x)`, `!x` and `x || y` apply it
Truthy(v) ==
  IF IsObject(v) THEN TRUE
  ELSE CASE v.k \in {"null", "undefined"} -> FALSE
         [] v.k = "str" -> v.v # ""
         [] v.k = "num" -> v.v # 0
         [] OTHER -> TRUE

\* a || b
Or(a, b) == IF Truthy(a) THEN a ELSE b

\* obj?.name
Get(obj, name) ==
  IF IsNullish(obj) \/ ~IsObject(obj) THEN Undefined
  ELSE IF name \in DOMAIN obj THEN obj[name] ELSE Undefined

\* { ...a, ...b }: the own properties of a, overridden and extended by b's
Spread(a, b) ==
  LET pa == IF IsObject(a) THEN a ELSE << >>
      pb == IF IsObject(b) THEN b ELSE << >>
  IN [f \in DOMAIN pa \cup DOMAIN pb |-> IF f \in DOMAIN pb THEN pb[f] ELSE pa[f]]

-----------------------------------------------------------------------------
(* AIProcessor.localParse *)

\* the system the extension runs on: Intl's resolved time zone and its UTC
\* offset in minutes
Systems ==
  {[timeZone |-> "Etc/UTC", offset |-> 0],
   [timeZone |-> "America/Los_Angeles", offset |-> -480],
   [timeZone |-> "Asia/Kolkata", offset |-> 330]}

\* Date.prototype.toISOString().split('T')[0]: the UTC calendar day
toISODate(t) == DateStr(dayOf(t))
\* `${hours}:${minutes}` from getHours() and getMinutes(): the local wall clock
toLocalHHMM(t, env) ==
  TimeStr(getHours(t + env.offset), (t + env.offset) % 60)

\* the digits a (\d+) directly before the unit captures: the last digit run
LastDigits(tok) == IF tok.fp = -1 THEN tok.ip ELSE tok.fp

IsMinuteUnit(w) == StartsWith(w, "min")
IsHourUnit(w) == StartsWith(w, "hour") \/ w = "hr"

\* positions of the number where each of durationPatterns matches
MinuteMatches(cmd) ==
  {i \in 1..Len(cmd) - 1 : cmd[i].k = "n" /\ IsMinuteUnit(lowerWordAt(cmd, i + 1))}
HourMatches(cmd) ==
  {i \in 1..Len(cmd) - 1 : cmd[i].k = "n" /\ IsHourUnit(lowerWordAt(cmd, i + 1))}
HalfHourMatches(cmd) ==
  {i \in 1..Len(cmd) - 1 :
     cmd[i].k = "n" /\ cmd[i].fp = 5 /\ IsHourUnit(lowerWordAt(cmd, i + 1))}

\* for (const pattern of durationPatterns): the first pattern that matches
ExtractDuration(cmd) ==
  IF MinuteMatches(cmd) # {} THEN N(LastDigits(cmd[Leftmost(MinuteMatches(cmd))]))
  ELSE IF HourMatches(cmd) # {} THEN N(LastDigits(cmd[Leftmost(HourMatches(cmd))]) * 60)
  ELSE IF HalfHourMatches(cmd) # {}
    THEN N(cmd[Leftmost(HalfHourMatches(cmd))].ip * 60 + 30)
  ELSE Null

platformKeywords == <<
  [platform |-> "google-meet", keywords |-> {<<"google", "meet">>, <<"gmeet">>, <<"meet">>}],
  [platform |-> "zoom", keywords |-> {<<"zoom">>}],
  [platform |-> "teams", keywords |-> {<<"teams">>, <<"microsoft", "teams">>, <<"ms", "teams">>}] >>

\* lowerCommand.includes(keyword)
CommandIncludes(cmd, keyword) ==
  \E i \in 1..Len(cmd) :
    /\ i + Len(keyword) - 1 <= Len(cmd)
    /\ IF Len(keyword) = 1 THEN Includes(lowerWordAt(cmd, i), keyword[1])
       ELSE /\ EndsWith(lowerWordAt(cmd, i), keyword[1])
            /\ StartsWith(lowerWordAt(cmd, i + 1), keyword[2])

RECURSIVE PlatformScan(_, _)
PlatformScan(cmd, i) ==
  IF i > Len(platformKeywords) THEN Null
  ELSE IF \E kw \in platformKeywords[i].keywords : CommandIncludes(cmd, kw)
    THEN S(platformKeywords[i].platform)
  ELSE PlatformScan(cmd, i + 1)

timezoneMap ==
  [EST |-> "America/New_York", EDT |-> "America/New_York",
   CST |-> "America/Chicago", CDT |-> "America/Chicago",
   MST |-> "America/Denver", MDT |-> "America/Denver",
   PST |-> "America/Los_Angeles", PDT |-> "America/Los_Angeles",
   GMT |-> "Europe/London", BST |-> "Europe/London",
   CET |-> "Europe/Paris", CEST |-> "Europe/Paris",
   IST |-> "Asia/Kolkata", JST |-> "Asia/Tokyo",
   AEST |-> "Australia/Sydney", AEDT |-> "Australia/Sydney"]

convertTimezoneAbbreviation(abbr, env) ==
  IF abbr \in DOMAIN timezoneMap THEN S(timezoneMap[abbr]) ELSE S(env.timeZone)

\* the words of the vocabulary that /\b([A-Z]{3,4})\b/ matches
AllCapsShort == {"PST", "EST", "ASAP", "CEST"}
TimezoneMatches(cmd) == {i \in 1..Len(cmd) : cmd[i].k = "w" /\ cmd[i].s \in AllCapsShort}

\* chronoParsed is what chrono.parse(command) returned: a sequence of results,
\* each with the instant of start.date() and start.isCertain('hour')
localParse(cmd, ctx, chronoParsed, env) ==
  LET name == Get(Get(ctx, "participantInfo"), "name")
      email == Get(Get(ctx, "participantInfo"), "email")
  IN [participantName |-> IF Truthy(name) THEN name ELSE Null,
      email |-> IF Truthy(email) THEN email ELSE Null,
      date |-> IF Len(chronoParsed) > 0 THEN toISODate(chronoParsed[1].t) ELSE Null,
      time |-> IF Len(chronoParsed) > 0 /\ chronoParsed[1].certainHour
                 THEN toLocalHHMM(chronoParsed[1].t, env) ELSE Null,
      timezone |-> IF TimezoneMatches(cmd) # {}
                     THEN convertTimezoneAbbreviation(cmd[Leftmost(TimezoneMatches(cmd))].s, env)
                     ELSE Null,
      duration |-> ExtractDuration(cmd),
      platform |-> PlatformScan(cmd, 1)]

-----------------------------------------------------------------------------
(* localParse as a function of its inputs *)

CtxNoInfo == [messages |-> <<>>]
CtxNameOnly == [participantInfo |-> [name |-> S("Ann")], messages |-> <<>>]
CtxFull == [participantInfo |-> [name |-> S("Ann"), email |-> S("ann@x.com")],
            messages |-> <<>>]
Contexts == {Null, CtxNoInfo, CtxNameOnly, CtxFull}

\* what chrono.parse can return on a system: nothing, a date without a time
\* (chrono then implies 12:00 local), a date with a certain time
Wall(day, h, m, system) == day * MinutesPerDay + h * 60 + m - system.offset
ChronoResults(system) ==
  {<<>>,
   <<[t |-> Wall(8, 12, 0, system), certainHour |-> FALSE]>>,
   <<[t |-> Wall(8, 14, 30, system), certainHour |-> TRUE]>>}

ParseTokens ==
  {Num(45), Num(2), Num(0), Decimal(1, 5), W("minutes"), W("minute"), W("hours"),
   W("Zoom"), W("meeting"), W("PST"), W("ASAP")}
ParseCommands == UNION {[1..n -> ParseTokens] : n \in 0..MaxCmdLen}

InitParse ==
  /\ command \in ParseCommands
  /\ context \in {Null, CtxFull}
  /\ sys \in Systems
  /\ chrono \in ChronoResults(sys)
  /\ storedKey = Idle /\ apiKey = Idle /\ keyLoad = "idle"
  /\ pPc = "localParse"
  /\ localResult = Pending
  /\ keyAtCall = Idle /\ parseFetchOutcome = Idle
  /\ aiOutcome = Idle /\ parsedData = Idle /\ validation = Idle /\ meetingDetails = Idle
  /\ parseFetches = 0 /\ messageFetches = 0 /\ responses = <<>>
  /\ SlotsIdle /\ RelIdle /\ TzIdle /\ ExtraIdle

LocalParseCall ==
  /\ pPc = "localParse"
  /\ localResult' = localParse(command, context, chrono, sys)
  /\ pPc' = "returned"
  /\ UNCHANGED <<command, context, sys, chrono, storedKey, apiKey, keyLoad,
                 keyAtCall, parseFetchOutcome, aiOutcome, parsedData, validation,
                 meetingDetails, parseFetches, messageFetches, responses>>
  /\ UNCHANGED notCmdVars

NextParse == LocalParseCall

SpecParse == InitParse /\ [][NextParse]_vars

\* the numeric-plus-unit mentions of a command: a number directly followed
\* by a minute or an hour unit
DurationMentions(cmd) ==
  {i \in 1..Len(cmd) - 1 :
     cmd[i].k = "n" /\ lowerWordAt(cmd, i + 1) \in {"minute", "minutes", "hour", "hours"}}

\* C8: from a command whose only duration mention is '<n> minutes' the
\* duration is n, from '<n> hours' 60*n, from '<n>.5 hours' 60*n+30; with no
\* numeric-plus-unit mention the duration stays absent.
C8_DurationExtraction ==
  (pPc = "returned" /\ localResult # Pending) =>
    /\ DurationMentions(command) = {} => localResult.duration = Null
    /\ \A i \in DurationMentions(command) :
         DurationMentions(command) = {i} =>
           LET tok == command[i]
               unit == lowerWordAt(command, i + 1)
           IN /\ (unit \in {"minute", "minutes"} /\ tok.fp = -1)
                   => localResult.duration = N(tok.ip)
              /\ (unit \in {"hour", "hours"} /\ tok.fp = -1)
                   => localResult.duration = N(60 * tok.ip)
              /\ (unit \in {"hour", "hours"} /\ tok.fp = 5)
                   => localResult.duration = N(60 * tok.ip + 30)

-----------------------------------------------------------------------------
(* BackgroundService.validateMeetingData *)

validateMeetingDataParsedOnly(pd, ctx) ==
  LET m1 == IF ~Truthy(Get(pd, "email")) THEN <<"email">> ELSE <<>>
      m2 == IF ~Truthy(Get(pd, "date")) THEN Append(m1, "date") ELSE m1
      m3 == IF ~Truthy(Get(pd, "time")) THEN Append(m2, "time") ELSE m2
  IN [isValid |-> Len(m3) = 0, missing |-> m3]

validateMeetingData(pd, ctx) ==
  LET m1 == IF ~Truthy(Get(pd, "email")) /\ ~Truthy(Get(Get(ctx, "participantInfo"), "email"))
              THEN <<"email">> ELSE <<>>
      m2 == IF ~Truthy(Get(pd, "date")) THEN Append(m1, "date") ELSE m1
      m3 == IF ~Truthy(Get(pd, "time")) THEN Append(m2, "time") ELSE m2
  IN [isValid |-> Len(m3) = 0, missing |-> m3]

\* parsed requests with any of the three required fields absent, null, empty
\* or set
ValidateFieldValues ==
  [email |-> {Null, S(""), S("bob@x.com")},
   date |-> {Null, S(""), DateStr(8)},
   time |-> {Null, N(0), TimeStr(14, 30)}]
ValidateParsed ==
  UNION {{pd \in [D -> UNION {ValidateFieldValues[f] : f \in D}] :
            \A f \in D : pd[f] \in ValidateFieldValues[f]}
         : D \in SUBSET {"email", "date", "time"}}
ValidateContexts ==
  Contexts \cup {[participantInfo |-> Null], [participantInfo |-> [email |-> S("")]]}

InitValidate ==
  /\ parsedData \in ValidateParsed
  /\ context \in ValidateContexts
  /\ validation = Pending
  /\ pPc = "validate"
  /\ command = Idle /\ sys = Idle /\ chrono = Idle
  /\ storedKey = Idle /\ apiKey = Idle /\ keyLoad = "idle"
  /\ keyAtCall = Idle /\ localResult = Idle /\ parseFetchOutcome = Idle
  /\ aiOutcome = Idle /\ meetingDetails = Idle
  /\ parseFetches = 0 /\ messageFetches = 0 /\ responses = <<>>
  /\ SlotsIdle /\ RelIdle /\ TzIdle /\ ExtraIdle

ValidateCall ==
  /\ pPc = "validate"
  /\ validation' = validateMeetingData(parsedData, context)
  /\ pPc' = "returned"
  /\ UNCHANGED <<command, context, sys, chrono, storedKey, apiKey, keyLoad,
                 keyAtCall, localResult, parseFetchOutcome, aiOutcome, parsedData,
                 meetingDetails, parseFetches, messageFetches, responses>>
  /\ UNCHANGED notCmdVars

NextValidate == ValidateCall

SpecValidate == InitValidate /\ [][NextValidate]_vars

RequiredOrder == <<"email", "date", "time">>
\* a field of the parsed request that is absent, null or empty
Lacks(obj, f) ==
  \/ IsNullish(obj)
  \/ f \notin DOMAIN obj
  \/ obj[f] \in {Null, Undefined, S(""), N(0)}
ContextEmailLacking(ctx) ==
  \/ IsNullish(ctx)
  \/ "participantInfo" \notin DOMAIN ctx
  \/ Lacks(ctx.participantInfo, "email")
Unsatisfied(f, pd, ctx) ==
  IF f = "email" THEN Lacks(pd, "email") /\ ContextEmailLacking(ctx) ELSE Lacks(pd, f)
PositionIn(seq, x) == CHOOSE i \in 1..Len(seq) : seq[i] = x

\* C6: validateMeetingData returns a result whose missing list is exactly the
\* sub-sequence of [email, date, time] that is unsatisfied, in that order;
\* email is satisfied by the parsed request or the context, date and time by
\* the parsed request alone; isValid is true exactly when the list is empty.
C6_MissingListExact ==
  (pPc = "returned" /\ validation \notin {Idle, Pending}) =>
    LET missing == validation.missing IN
    /\ \A f \in {"email", "date", "time"} :
         (\E i \in 1..Len(missing) : missing[i] = f) <=> Unsatisfied(f, parsedData, context)
    /\ \A i, j \in 1..Len(missing) :
         i < j => PositionIn(RequiredOrder, missing[i]) < PositionIn(RequiredOrder, missing[j])
    /\ validation.isValid <=> (missing = <<>>)

\* an empty parse with a null context: all three are missing
C6_Witness ==
  /\ pPc = "returned" /\ validation \notin {Idle, Pending}
  /\ parsedData = << >> /\ context = Null
  /\ validation = [isValid |-> FALSE, missing |-> <<"email", "date", "time">>]

-----------------------------------------------------------------------------
(* AIProcessor.aiEnhancedParse and parseSchedulingRequest *)

\* how a call completes
Return(v) == [kind |-> "return", value |-> v]
Throw(e) == [kind |-> "throw", error |-> e]

\* if (this.apiKey)
HasApiKeyNotNull(key) == key # Null
HasApiKey(key) == Truthy(key)

\* the catch block of aiEnhancedParse
AiCatchRethrow(local) == Throw("Error with AI parsing")
AiCatch(local) == Return(local)

\* the merge of the model's reply into the local parse
MergeSpreadOnly(local, aiParsed) == Spread(local, aiParsed)
Merge(local, aiParsed) ==
  Spread(Spread(local, aiParsed),
         [participantName |-> Or(Get(aiParsed, "participantName"), local.participantName),
          email |-> Or(Get(aiParsed, "email"), local.email)])

\* What the endpoint does with the one request: the fetch rejects; a response
\* with a non-2xx status; a body response.json() rejects; a JSON body without
\* choices[0].message.content; a content JSON.parse rejects; a content that is
\* the JSON text of `value`.
FailedOutcomes ==
  {[t |-> "rejected"], [t |-> "status"], [t |-> "badBody"], [t |-> "noChoices"],
   [t |-> "badContent"]}

aiEnhancedParse(outcome, local) ==
  CASE outcome.t = "rejected" -> AiCatch(local)
    [] outcome.t = "status" -> Return(local)
    [] outcome.t \in {"badBody", "noChoices", "badContent"} -> AiCatch(local)
    [] outcome.t = "reply" ->
         \* aiParsed.participantName of a JSON null is a TypeError
         IF IsNullish(outcome.value) THEN AiCatch(local)
         ELSE Return(Merge(local, outcome.value))

\* the replies of the model: objects with any of these fields
ReplyFieldValues ==
  [participantName |-> {S("Bob"), S("")},
   email |-> {S("bob@x.com"), Null},
   date |-> {DateStr(9), S("friday"), Null},
   time |-> {TimeStr(10, 0), N(1400)},
   duration |-> {N(45)},
   platform |-> {S("skype")}]
ReplyObjects ==
  UNION {{r \in [D -> UNION {ReplyFieldValues[f] : f \in D}] :
            \A f \in D : r[f] \in ReplyFieldValues[f]}
         : D \in SUBSET DOMAIN ReplyFieldValues}
ParseFetchOutcomes ==
  FailedOutcomes \cup {[t |-> "reply", value |-> v] : v \in ReplyObjects \cup {Null, N(5)}}

-----------------------------------------------------------------------------
(* BackgroundService.processSchedulingCommand *)

\* StorageService.defaultSettings, loaded before the listeners are set up
Settings(system) ==
  [defaultPlatform |-> S("google-meet"), defaultDuration |-> N(30),
   defaultTimezone |-> S(system.timeZone)]

IsString(v) == ~IsObject(v) /\ v.k \in {"str", "datestr", "timestr"}

\* new Date(dateStr) of a truthy value: the instant, or -1 for an Invalid Date
NewDate(v) ==
  IF IsObject(v) THEN -1
  ELSE CASE v.k = "datestr" -> v.day * MinutesPerDay
         [] v.k = "num" -> 0
         [] OTHER -> -1

\* date.setHours(parseInt(hours), parseInt(minutes)) on the local wall clock
SetLocalTime(t, timeStr, system) ==
  IF t = -1 \/ timeStr.k # "timestr" THEN -1
  ELSE dayOf(t + system.offset) * MinutesPerDay + timeStr.h * 60 + timeStr.m - system.offset

parseDateAndTime(dateStr, timeStr, timezone, system) ==
  IF ~IsString(timeStr) THEN Throw("timeStr.split is not a function")
  ELSE LET t == SetLocalTime(NewDate(dateStr), timeStr, system) IN
       IF t = -1 THEN Throw("Invalid time value")
       ELSE Return([date |-> toISODate(t), time |-> timeStr,
                    timezone |-> Or(timezone, S(system.timeZone)), dateTime |-> DateV(t)])

MessageFetchOutcomes == {"rejected", "status", "badBody", "content"}
TemplateMessage == S("template message")
AiMessage == S("generated message")
\* aiGenerateMessage once its fetch has settled
aiGenerateMessage(outcome) == IF outcome = "content" THEN AiMessage ELSE TemplateMessage

\* generateMeetingDetails up to the message draft
MeetingDetailsOf(pd, ctx, dateTime, settings) ==
  [participantName |->
     Or(Or(Get(pd, "participantName"), Get(Get(ctx, "participantInfo"), "name")), S("Unknown")),
   email |-> Or(Or(Get(pd, "email"), Get(Get(ctx, "participantInfo"), "email")), S("")),
   date |-> dateTime.date,
   time |-> dateTime.time,
   timezone |-> dateTime.timezone,
   duration |-> Or(Or(Get(pd, "duration"), settings.defaultDuration), N(30)),
   platform |-> Or(Or(Get(pd, "platform"), settings.defaultPlatform), S("google-meet")),
   linkedInUrl |-> Get(Get(ctx, "participantInfo"), "linkedInUrl")]

WithDraft(details, draft) ==
  [f \in DOMAIN details \cup {"messageDraft"} |->
     IF f = "messageDraft" THEN draft ELSE details[f]]

ErrorResponse(msg) == [error |-> S(msg)]
\* a needsInput response that drops the partial parse
NeedsInputResponseBare(v, pd) == [needsInput |-> TRUE, missing |-> v.missing, partialData |-> Null]
NeedsInputResponse(v, pd) == [needsInput |-> TRUE, missing |-> v.missing, partialData |-> pd]
SuccessResponse(details) == [success |-> TRUE, meetingDetails |-> details]

\* processSchedulingCommand from the return of parseSchedulingRequest to its
\* next suspension (the message fetch) or its response
AfterParse(pd) ==
  /\ parsedData' = pd
  /\ IF ~Truthy(pd)
       THEN /\ responses' = Append(responses,
                 ErrorResponse("Could not understand the scheduling request. Please try again."))
            /\ pPc' = "done"
            /\ UNCHANGED <<validation, meetingDetails, messageFetches>>
       ELSE LET v == validateMeetingData(pd, context)
                dt == parseDateAndTime(Get(pd, "date"), Get(pd, "time"),
                                       Or(Get(pd, "timezone"), Settings(sys).defaultTimezone), sys)
            IN /\ validation' = v
               /\ IF ~v.isValid
                    THEN /\ responses' = Append(responses, NeedsInputResponse(v, pd))
                         /\ pPc' = "done"
                         /\ UNCHANGED <<meetingDetails, messageFetches>>
                  ELSE IF dt.kind = "throw"
                    THEN /\ responses' = Append(responses, ErrorResponse(dt.error))
                         /\ pPc' = "done"
                         /\ UNCHANGED <<meetingDetails, messageFetches>>
                  ELSE IF HasApiKey(apiKey)
                    THEN /\ meetingDetails' = MeetingDetailsOf(pd, context, dt.value, Settings(sys))
                         /\ messageFetches' = messageFetches + 1
                         /\ pPc' = "awaitMessageFetch"
                         /\ UNCHANGED responses
                  ELSE /\ meetingDetails' =
                            WithDraft(MeetingDetailsOf(pd, context, dt.value, Settings(sys)),
                                      TemplateMessage)
                       /\ responses' = Append(responses, SuccessResponse(meetingDetails'))
                       /\ pPc' = "done"
                       /\ UNCHANGED messageFetches

\* loadApiKey, started by the constructor, reads the stored key
LoadApiKeyResolve ==
  /\ keyLoad = "pending"
  /\ apiKey' = storedKey
  /\ keyLoad' = "done"
  /\ UNCHANGED <<command, context, sys, chrono, storedKey, pPc, keyAtCall, localResult,
                 parseFetchOutcome, aiOutcome, parsedData, validation, meetingDetails,
                 parseFetches, messageFetches, responses>>
  /\ UNCHANGED notCmdVars

\* the storage read fails: the catch logs and leaves apiKey as it is
LoadApiKeyReject ==
  /\ keyLoad = "pending"
  /\ keyLoad' = "failed"
  /\ UNCHANGED <<command, context, sys, chrono, storedKey, apiKey, pPc, keyAtCall,
                 localResult, parseFetchOutcome, aiOutcome, parsedData, validation,
                 meetingDetails, parseFetches, messageFetches, responses>>
  /\ UNCHANGED notCmdVars

\* the message arrives and no credential is loaded: parseSchedulingRequest
\* returns the local parse without suspending
ProcessCommandLocal ==
  /\ pPc = "received"
  /\ ~HasApiKey(apiKey)
  /\ keyAtCall' = apiKey
  /\ localResult' = localParse(command, context, chrono, sys)
  /\ AfterParse(localResult')
  /\ UNCHANGED <<command, context, sys, chrono, storedKey, apiKey, keyLoad,
                 parseFetchOutcome, aiOutcome, parseFetches>>
  /\ UNCHANGED notCmdVars

\* the message arrives with a credential loaded: aiEnhancedParse sends its
\* request and suspends
ProcessCommandFetch ==
  /\ pPc = "received"
  /\ HasApiKey(apiKey)
  /\ keyAtCall' = apiKey
  /\ localResult' = localParse(command, context, chrono, sys)
  /\ parseFetches' = parseFetches + 1
  /\ pPc' = "awaitParseFetch"
  /\ UNCHANGED <<command, context, sys, chrono, storedKey, apiKey, keyLoad,
                 parseFetchOutcome, aiOutcome, parsedData, validation, meetingDetails,
                 messageFetches, responses>>
  /\ UNCHANGED notCmdVars

\* the request settles: aiEnhancedParse completes, parseSchedulingRequest
\* returns its value (null if it threw) and the handler goes on
ParseFetchSettles ==
  /\ pPc = "awaitParseFetch"
  /\ \E outcome \in ParseFetchOutcomes :
       /\ parseFetchOutcome' = outcome
       /\ aiOutcome' = aiEnhancedParse(outcome, localResult)
       /\ AfterParse(IF aiOutcome'.kind = "return" THEN aiOutcome'.value ELSE Null)
  /\ UNCHANGED <<command, context, sys, chrono, storedKey, apiKey, keyLoad,
                 keyAtCall, localResult, parseFetches>>
  /\ UNCHANGED notCmdVars

\* the message-generation request settles and the handler responds
MessageFetchSettles ==
  /\ pPc = "awaitMessageFetch"
  /\ \E outcome \in MessageFetchOutcomes :
       /\ meetingDetails' = WithDraft(meetingDetails, aiGenerateMessage(outcome))
       /\ responses' = Append(responses, SuccessResponse(meetingDetails'))
  /\ pPc' = "done"
  /\ UNCHANGED <<command, context, sys, chrono, storedKey, apiKey, keyLoad,
                 keyAtCall, localResult, parseFetchOutcome, aiOutcome, parsedData,
                 validation, parseFetches, messageFetches>>
  /\ UNCHANGED notCmdVars

CmdCommands ==
  {<<>>,
   <<W("Zoom"), Num(45), W("minutes")>>,
   <<Decimal(1, 5), W("hours"), W("PST")>>}
StoredKeys == {Undefined, S(""), S("sk-key")}

InitCmd ==
  /\ command \in CmdCommands
  /\ context \in Contexts
  /\ sys \in Systems
  /\ chrono \in ChronoResults(sys)
  /\ storedKey \in StoredKeys
  /\ apiKey = Null
  /\ keyLoad = "pending"
  /\ pPc = "received"
  /\ keyAtCall = Pending /\ localResult = Pending /\ parseFetchOutcome = Pending
  /\ aiOutcome = Pending /\ parsedData = Pending /\ validation = Pending
  /\ meetingDetails = Pending
  /\ parseFetches = 0 /\ messageFetches = 0 /\ responses = <<>>
  /\ SlotsIdle /\ RelIdle /\ TzIdle /\ ExtraIdle

NextCmd ==
  \/ LoadApiKeyResolve
  \/ LoadApiKeyReject
  \/ ProcessCommandLocal
  \/ ProcessCommandFetch
  \/ ParseFetchSettles
  \/ MessageFetchSettles

SpecCmd == InitCmd /\ [][NextCmd]_vars

-----------------------------------------------------------------------------
(* Claims about the refinement and the command handler *)

IdentityFields == {"participantName", "email"}
MissingOrEmpty(obj, f) == f \notin DOMAIN obj \/ obj[f] \in {Null, Undefined, S("")}
ModelCallFailed == parseFetchOutcome # Pending /\ parseFetchOutcome \in FailedOutcomes
ModelReplied ==
  /\ parseFetchOutcome # Pending
  /\ parseFetchOutcome.t = "reply"
  /\ parseFetchOutcome.value \in ReplyObjects

\* C3: once the one model call has failed (rejected fetch, non-2xx status,
\* unparseable body or content), aiEnhancedParse has returned its localParse
\* argument, has thrown nothing, and the endpoint has been called exactly once
\* and is never called again.
C3_FailureReturnsLocalParse ==
  ModelCallFailed => aiOutcome = Return(localResult) /\ parseFetches = 1

C3_Witness ==
  /\ ModelCallFailed
  /\ parseFetchOutcome.t = "status"
  /\ Truthy(keyAtCall)
  /\ aiOutcome = Return(localResult)
  /\ pPc = "done"

\* C4: after a reply that is an object, the merged result has the fields of
\* the local parse and of the reply; a field the reply contains has the reply's
\* value, any other field the local parse's; participantName and email have
\* the local parse's value whenever the reply's is missing or empty.
C4_MergePrecedence ==
  ModelReplied =>
    LET reply == parseFetchOutcome.value
        merged == aiOutcome.value
    IN /\ aiOutcome.kind = "return"
       /\ DOMAIN merged = DOMAIN localResult \cup DOMAIN reply
       /\ \A f \in DOMAIN merged :
            merged[f] = IF f \in IdentityFields /\ MissingOrEmpty(reply, f) THEN localResult[f]
                        ELSE IF f \in DOMAIN reply THEN reply[f]
                        ELSE localResult[f]

C4_Witness ==
  /\ ModelReplied
  /\ parseFetchOutcome.value =
       [participantName |-> S(""), date |-> DateStr(9), platform |-> S("skype")]
  /\ localResult.participantName = S("Ann")
  /\ localResult.time # Null
  /\ aiOutcome.value.participantName = S("Ann")
  /\ aiOutcome.value.date = DateStr(9)
  /\ aiOutcome.value.time = localResult.time
  /\ aiOutcome.value.platform = S("skype")

\* C5: when parseSchedulingRequest is called with no credential loaded (apiKey
\* null, undefined or empty), it returns exactly the result of localParse and
\* no request is made to the model endpoint.
C5_NoCredentialLocalOnly ==
  keyAtCall \in {Null, Undefined, S("")} => parsedData = localResult /\ parseFetches = 0

C5_Witness ==
  /\ keyAtCall = S("")
  /\ keyLoad = "done"
  /\ parsedData = localResult
  /\ parseFetches = 0
  /\ pPc = "done"

\* C10: whatever the command text, the context and the behaviour of the model
\* endpoint, no response of processSchedulingCommand is an error response:
\* each is a success response or a needsInput response.
C10_NeverAnswersError ==
  \A i \in DOMAIN responses :
     /\ "error" \notin DOMAIN responses[i]
     /\ "success" \in DOMAIN responses[i] \/ "needsInput" \in DOMAIN responses[i]

-----------------------------------------------------------------------------
(* Claims about the shape of the refined result *)

ClosedPlatforms == {S("google-meet"), S("zoom"), S("teams")}

\* a parsed reply that breaks the schema of the prompt: not an object, a time
\* that is not a string, a date or time outside its format, a platform outside
\* the closed set
ViolatesSchema(v) ==
  \/ ~IsObject(v)
  \/ /\ IsObject(v)
     /\ \/ "time" \in DOMAIN v /\ (IsObject(v.time) \/ v.time.k # "timestr")
        \/ "date" \in DOMAIN v /\ (IsObject(v.date) \/ v.date.k # "datestr")
        \/ "platform" \in DOMAIN v /\ v.platform \notin ClosedPlatforms

\* C11: when the model's reply parses as JSON but violates the schema, the
\* value aiEnhancedParse returns is the local parse unchanged.
C11_SchemaViolationReturnsLocal ==
  (parseFetchOutcome # Pending /\ parseFetchOutcome.t = "reply"
     /\ ViolatesSchema(parseFetchOutcome.value))
    => aiOutcome = Return(localResult)

\* C12: every request object parseSchedulingRequest has returned, on the
\* local or on the refined path, has platform absent or one of google-meet,
\* zoom, teams.
C12_PlatformInClosedSet ==
  (parsedData # Pending /\ IsObject(parsedData)) =>
    Get(parsedData, "platform") \in ClosedPlatforms \cup {Null, Undefined}

\* C13: in every request object localParse has produced, duration is absent or
\* a positive number of minutes.
C13_DurationPositive ==
  (pPc = "returned" /\ localResult # Pending) =>
    \/ localResult.duration = Null
    \/ localResult.duration.k = "num" /\ localResult.duration.v > 0

\* the platform names a command can hold as words of their own
PlatformWords == {"zoom", "teams", "meet", "gmeet"}
HasPlatformToken(cmd) == \E i \in 1..Len(cmd) : lowerWordAt(cmd, i) \in PlatformWords

SeqHas(seq, x) == \E i \in 1..Len(seq) : seq[i] = x

\* C14: from a command with no date or time expression (chrono finds nothing),
\* no numeric-plus-unit mention and no platform name, localParse returns date,
\* time, duration and platform absent, and validateMeetingData on that result
\* lists date and time as missing, and email when the context supplies none.
C14_EmptyCommandAllAbsent ==
  (pPc = "returned" /\ localResult # Pending /\ chrono = <<>>
     /\ DurationMentions(command) = {} /\ ~HasPlatformToken(command)) =>
    /\ localResult.date = Null /\ localResult.time = Null
    /\ localResult.duration = Null /\ localResult.platform = Null
    /\ LET v == validateMeetingData(localResult, context)
       IN /\ ~v.isValid
          /\ SeqHas(v.missing, "date") /\ SeqHas(v.missing, "time")
          /\ ~Truthy(Get(Get(context, "participantInfo"), "email")) => SeqHas(v.missing, "email")

-----------------------------------------------------------------------------
(* localParse called twice with the same command and context *)

\* how far the clock can move between the two calls
MaxClockDays == 1

RepeatCommands ==
  {<<>>, <<W("ASAP")>>, <<W("PST")>>, <<Num(45), W("minutes"), W("Zoom")>>}

\* chrono.parse of the same command after the clock has moved by `days` and
\* the system zone has changed: the same expression, read from the new now
\* on the new local wall clock
ChronoAgain(parsed, days, from, to) ==
  [i \in 1..Len(parsed) |->
     [t |-> parsed[i].t + days * MinutesPerDay + from.offset - to.offset,
      certainHour |-> parsed[i].certainHour]]

notRepeatVars == <<slotVars, relVars, tzVars, suggestVars, meetingVars, laterVars>>

InitRepeat ==
  /\ command \in RepeatCommands
  /\ context \in {Null, CtxFull}
  /\ sys \in Systems
  /\ chrono \in ChronoResults(sys)
  /\ pPc = "firstCall"
  /\ localResult = Pending
  /\ firstResult = Pending
  /\ storedKey = Idle /\ apiKey = Idle /\ keyLoad = "idle"
  /\ keyAtCall = Idle /\ parseFetchOutcome = Idle
  /\ aiOutcome = Idle /\ parsedData = Idle /\ validation = Idle /\ meetingDetails = Idle
  /\ parseFetches = 0 /\ messageFetches = 0 /\ responses = <<>>
  /\ SlotsIdle /\ RelIdle /\ TzIdle /\ SuggestIdle /\ MeetingIdle /\ LaterIdle

FirstLocalParse ==
  /\ pPc = "firstCall"
  /\ firstResult' = localParse(command, context, chrono, sys)
  /\ pPc' = "between"
  /\ UNCHANGED <<command, context, sys, chrono, storedKey, apiKey, keyLoad,
                 keyAtCall, localResult, parseFetchOutcome, aiOutcome, parsedData,
                 validation, meetingDetails, parseFetches, messageFetches, responses>>
  /\ UNCHANGED notRepeatVars

\* between the calls the clock moves on and the system zone may change
EnvironmentMoves ==
  /\ pPc = "between"
  /\ \E days \in 0..MaxClockDays, to \in Systems :
       /\ sys' = to
       /\ chrono' = ChronoAgain(chrono, days, sys, to)
  /\ pPc' = "moved"
  /\ UNCHANGED <<command, context, storedKey, apiKey, keyLoad,
                 keyAtCall, localResult, parseFetchOutcome, aiOutcome, parsedData,
                 validation, meetingDetails, parseFetches, messageFetches, responses,
                 firstResult>>
  /\ UNCHANGED notRepeatVars

SecondLocalParse ==
  /\ pPc \in {"between", "moved"}
  /\ localResult' = localParse(command, context, chrono, sys)
  /\ pPc' = "repeated"
  /\ UNCHANGED <<command, context, sys, chrono, storedKey, apiKey, keyLoad,
                 keyAtCall, parseFetchOutcome, aiOutcome, parsedData,
                 validation, meetingDetails, parseFetches, messageFetches, responses,
                 firstResult>>
  /\ UNCHANGED notRepeatVars

NextRepeat ==
  \/ FirstLocalParse
  \/ EnvironmentMoves
  \/ SecondLocalParse

SpecRepeat == InitRepeat /\ [][NextRepeat]_vars

\* C15: a second call of localParse with the same command and context returns
\* a result deep-equal to the first call's, whenever it is made.
C15_LocalParseDeterministic ==
  pPc = "repeated" => localResult = firstResult

-----------------------------------------------------------------------------
(* TimezoneHandler.suggestMeetingTimes *)

\* Instants here are minutes of UTC; a zone is its name and its UTC offset.
Zones ==
  {[timeZone |-> "America/Los_Angeles", offset |-> -480],
   [timeZone |-> "America/New_York", offset |-> -300],
   [timeZone |-> "Etc/UTC", offset |-> 0],
   [timeZone |-> "Europe/Paris", offset |-> 60],
   [timeZone |-> "Asia/Kolkata", offset |-> 330]}

\* moment(date).startOf('day'): 00:00 of the instant's day on the system's clock
momentStartOfDay(t, zone) == dayOf(t + zone.offset) * MinutesPerDay - zone.offset
\* m.tz(zone).hour(h).minute(0): h:00 of the instant's day on the zone's clock
momentTzHourMinute0(t, zone, h) == dayOf(t + zone.offset) * MinutesPerDay + h * 60 - zone.offset
\* m.tz(zone).hour()
momentTzHour(t, zone) == getHours(t + zone.offset)
\* m.tz(zone).format('h:mm A')
momentFormatTime(t, zone) ==
  LET h == getHours(t + zone.offset)
  IN [h12 |-> ((h + 11) % 12) + 1, mm |-> (t + zone.offset) % 60,
      meridiem |-> IF h < 12 THEN "AM" ELSE "PM"]

idealStart == 10
idealEnd == 16

\* calculateTimeScore, counted in halves (2 stands for 1.0, 1 for 0.5)
calculateTimeScore(hour1, hour2) ==
  LET score1 == IF hour1 >= idealStart /\ hour1 <= idealEnd THEN 2 ELSE 1
      score2 == IF hour2 >= idealStart /\ hour2 <= idealEnd THEN 2 ELSE 1
      earlyPenalty1 == IF hour1 < 9 THEN -1 ELSE 0
      earlyPenalty2 == IF hour2 < 9 THEN -1 ELSE 0
      latePenalty1 == IF hour1 > 17 THEN -1 ELSE 0
      latePenalty2 == IF hour2 > 17 THEN -1 ELSE 0
  IN score1 + score2 + earlyPenalty1 + earlyPenalty2 + latePenalty1 + latePenalty2

\* the loop over timezone1's business hours, from `hour` on
RECURSIVE SuggestionLoop(_, _)
SuggestionLoop(args, hour) ==
  IF ~(hour < args.businessHoursEnd) THEN <<>>
  ELSE LET time1 == momentTzHourMinute0(momentStartOfDay(args.date, args.system),
                                        args.timezone1, hour)
           hour2 == momentTzHour(time1, args.timezone2)
           rest == SuggestionLoop(args, hour + 1)
       IN IF hour2 >= args.businessHoursStart /\ hour2 < args.businessHoursEnd
            THEN <<[timezone1Time |-> momentFormatTime(time1, args.timezone1),
                    timezone2Time |-> momentFormatTime(time1, args.timezone2),
                    dateTime |-> time1,
                    score |-> calculateTimeScore(hour, hour2)]>> \o rest
            ELSE rest

\* Array.prototype.sort with a comparator is stable: x goes behind every
\* element the comparator does not put after it
RECURSIVE InsertAscending(_, _)
InsertAscending(sorted, x) ==
  IF sorted = <<>> THEN <<x>>
  ELSE IF x.score - Head(sorted).score < 0 THEN <<x>> \o sorted
  ELSE <<Head(sorted)>> \o InsertAscending(Tail(sorted), x)
RECURSIVE InsertDescending(_, _)
InsertDescending(sorted, x) ==
  IF sorted = <<>> THEN <<x>>
  ELSE IF Head(sorted).score - x.score < 0 THEN <<x>> \o sorted
  ELSE <<Head(sorted)>> \o InsertDescending(Tail(sorted), x)

RECURSIVE SortAscending(_)
SortAscending(seq) ==
  IF seq = <<>> THEN <<>>
  ELSE InsertAscending(SortAscending(SubSeq(seq, 1, Len(seq) - 1)), seq[Len(seq)])
\* suggestions.sort((a, b) => b.score - a.score)
RECURSIVE SortSuggestions(_)
SortSuggestions(seq) ==
  IF seq = <<>> THEN <<>>
  ELSE InsertDescending(SortSuggestions(SubSeq(seq, 1, Len(seq) - 1)), seq[Len(seq)])

topSuggestions == 5
\* suggestions.slice(0, 5)
Slice(seq, n) == SubSeq(seq, 1, IF Len(seq) < n THEN Len(seq) ELSE n)

suggestMeetingTimes(args) ==
  Slice(SortSuggestions(SuggestionLoop(args, args.businessHoursStart)), topSuggestions)

SuggestDates == {MinutesPerDay + 30, MinutesPerDay + 23 * 60}
BusinessHours == {<<9, 17>>, <<8, 19>>, <<0, 24>>, <<10, 12>>, <<13, 13>>}

InitSuggest ==
  /\ sgArgs \in {[timezone1 |-> z1, timezone2 |-> z2, date |-> d, system |-> z,
                  businessHoursStart |-> bh[1], businessHoursEnd |-> bh[2]] :
                 z1 \in Zones, z2 \in Zones, d \in SuggestDates, z \in Systems,
                 bh \in BusinessHours}
  /\ sgResult = Pending
  /\ sgPc = "call"
  /\ SlotsIdle /\ RelIdle /\ TzIdle /\ CmdIdle /\ RepeatIdle /\ MeetingIdle /\ LaterIdle

SuggestMeetingTimesCall ==
  /\ sgPc = "call"
  /\ sgResult' = suggestMeetingTimes(sgArgs)
  /\ sgPc' = "returned"
  /\ UNCHANGED <<sgArgs, slotVars, relVars, tzVars, cmdVars, repeatVars, meetingVars, laterVars>>

NextSuggest == SuggestMeetingTimesCall

SpecSuggest == InitSuggest /\ [][NextSuggest]_vars

\* the hour of day a formatted 'h:mm A' time shows
HourShown(f) == (f.h12 % 12) + (IF f.meridiem = "PM" THEN 12 ELSE 0)
InWindow(h, args) == h >= args.businessHoursStart /\ h < args.businessHoursEnd
\* the equivalent in timezone2 of h:00 in timezone1
EquivalentHour(h, args) ==
  ((h * 60 - args.timezone1.offset + args.timezone2.offset) % MinutesPerDay) \div 60
\* the hours of timezone1 whose pair qualifies
QualifyingHours(args) ==
  {h \in 0..23 : InWindow(h, args) /\ InWindow(EquivalentHour(h, args), args)}
\* score of a pair: 1.0 a side inside 10..16, else 0.5, less 0.5 a side before
\* 9 or after 17; in halves
PairScore(h1, h2) ==
  LET side(h) == (IF h >= 10 /\ h <= 16 THEN 2 ELSE 1) - (IF h < 9 \/ h > 17 THEN 1 ELSE 0)
  IN side(h1) + side(h2)

\* C16: suggestMeetingTimes returns at most 5 suggestions; each shows an hour
\* of timezone A and the equivalent hour of timezone B, both inside the
\* business-hours window; scores do not increase along the list and equal
\* scores stand in ascending hour of A; no qualifying pair left out scores
\* higher than a returned one.
C16_SuggestionsRanked ==
  sgPc = "returned" =>
    LET r == sgResult
        hourA(i) == HourShown(r[i].timezone1Time)
        returned == {hourA(i) : i \in 1..Len(r)}
    IN /\ Len(r) <= 5
       /\ \A i \in 1..Len(r) :
            /\ hourA(i) \in QualifyingHours(sgArgs)
            /\ HourShown(r[i].timezone2Time) = EquivalentHour(hourA(i), sgArgs)
            /\ r[i].score = PairScore(hourA(i), EquivalentHour(hourA(i), sgArgs))
       /\ \A i, j \in 1..Len(r) :
            i < j => \/ r[i].score > r[j].score
                     \/ r[i].score = r[j].score /\ hourA(i) < hourA(j)
       /\ \A h \in QualifyingHours(sgArgs) \ returned :
            \A i \in 1..Len(r) :
              PairScore(h, EquivalentHour(h, sgArgs)) <= r[i].score

\* more than five pairs qualify, with ties and a drop in score
C16_Witness ==
  /\ sgPc = "returned"
  /\ Len(sgResult) = 5
  /\ Cardinality(QualifyingHours(sgArgs)) > 5
  /\ sgArgs.timezone1 # sgArgs.timezone2
  /\ sgResult[1].score = sgResult[2].score
  /\ sgResult[1].score > sgResult[5].score

-----------------------------------------------------------------------------
(* BackgroundService.createMeeting *)

\* switch (details.platform) picks createGoogleMeet (also the default),
\* createZoomMeeting or createTeamsMeeting; the three have the same shape: no
\* usable credentials, a generated link; else one request, and a generated
\* link from the catch when it fails.

ProviderLink == S("link of the provider")
\* generateMeetCode / generateZoomLink / generateTeamsLink
PlaceholderLink == S("generated placeholder link")

MeetingPlatforms == {S("google-meet"), S("zoom"), S("teams"), S("skype"), Undefined}
MeetingDetails ==
  {[platform |-> pf, email |-> e, message |-> S("Hi [Meeting Link]")] :
     pf \in MeetingPlatforms, e \in {S("ann@x.com"), S("")}}

FailureResponse(msg) == [success |-> FALSE, error |-> S(msg)]
CreatedResponse(link) ==
  [success |-> TRUE, meetingLink |-> link, message |-> S("Meeting created successfully!")]

cmOthers == <<slotVars, relVars, tzVars, cmdVars, repeatVars, suggestVars, laterVars>>

InitMeeting ==
  /\ cmDetails \in MeetingDetails
  /\ cmCredentials \in BOOLEAN
  /\ cmPc = "received"
  /\ cmLink = Pending
  /\ cmFailed = {}
  /\ cmRequests = [link |-> 0, calendar |-> 0]
  /\ cmInjected = 0
  /\ cmResponses = <<>>
  /\ SlotsIdle /\ RelIdle /\ TzIdle /\ CmdIdle /\ RepeatIdle /\ SuggestIdle /\ LaterIdle

\* createGoogleMeet without an auth token, createZoomMeeting without key or
\* valid access token, createTeamsMeeting without token: a generated link and
\* no request
LinkWithoutProvider ==
  /\ cmPc = "received"
  /\ ~cmCredentials
  /\ cmLink' = PlaceholderLink
  /\ cmPc' = "calendar"
  /\ UNCHANGED <<cmDetails, cmCredentials, cmFailed, cmRequests, cmInjected, cmResponses>>
  /\ UNCHANGED cmOthers

\* the platform method sends its request to the provider
LinkRequestSent ==
  /\ cmPc = "received"
  /\ cmCredentials
  /\ cmRequests' = [cmRequests EXCEPT !.link = @ + 1]
  /\ cmPc' = "awaitLink"
  /\ UNCHANGED <<cmDetails, cmCredentials, cmLink, cmFailed, cmInjected, cmResponses>>
  /\ UNCHANGED cmOthers

\* the provider answers: its link is returned; or the fetch rejects or the
\* status is not ok, and the method's catch returns a generated link
LinkRequestSettles ==
  /\ cmPc = "awaitLink"
  /\ \E ok \in BOOLEAN :
       /\ cmLink' = IF ok THEN ProviderLink ELSE PlaceholderLink
       /\ cmFailed' = IF ok THEN cmFailed ELSE cmFailed \cup {"link"}
  /\ cmPc' = "calendar"
  /\ UNCHANGED <<cmDetails, cmCredentials, cmRequests, cmInjected, cmResponses>>
  /\ UNCHANGED cmOthers

\* createEvent: ensureAuthenticated rejects and createMeeting's catch responds
CalendarAuthFails ==
  /\ cmPc = "calendar"
  /\ cmResponses' = Append(cmResponses, FailureResponse("authentication failed"))
  /\ cmPc' = "done"
  /\ UNCHANGED <<cmDetails, cmCredentials, cmLink, cmFailed, cmRequests, cmInjected>>
  /\ UNCHANGED cmOthers

\* createEvent sends the event to the calendar provider
CalendarRequestSent ==
  /\ cmPc = "calendar"
  /\ cmRequests' = [cmRequests EXCEPT !.calendar = @ + 1]
  /\ cmPc' = "awaitCalendar"
  /\ UNCHANGED <<cmDetails, cmCredentials, cmLink, cmFailed, cmInjected, cmResponses>>
  /\ UNCHANGED cmOthers

\* the calendar provider answers: the event; or the fetch rejects or the
\* status is not ok, createEvent rethrows and createMeeting's catch responds
CalendarRequestSettles ==
  /\ cmPc = "awaitCalendar"
  /\ \E ok \in BOOLEAN :
       IF ok
         THEN /\ cmPc' = "send"
              /\ UNCHANGED <<cmFailed, cmResponses>>
         ELSE /\ cmFailed' = cmFailed \cup {"calendar"}
              /\ cmResponses' = Append(cmResponses, FailureResponse("Calendar API error"))
              /\ cmPc' = "done"
  /\ UNCHANGED <<cmDetails, cmCredentials, cmLink, cmRequests, cmInjected>>
  /\ UNCHANGED cmOthers

\* sendLinkedInMessage and the response: no messaging tab is open; the message
\* is handed to the tab; tabs.sendMessage rejects; tabs.query rejects
SendLinkedInMessage ==
  /\ cmPc = "send"
  /\ \E outcome \in {"noTab", "sent", "sendRejects", "queryRejects"} :
       /\ cmInjected' = IF outcome \in {"sent", "sendRejects"} THEN cmInjected + 1
                        ELSE cmInjected
       /\ cmResponses' = Append(cmResponses,
            IF outcome \in {"noTab", "sent"} THEN CreatedResponse(cmLink)
            ELSE FailureResponse("tab unavailable"))
  /\ cmPc' = "done"
  /\ UNCHANGED <<cmDetails, cmCredentials, cmLink, cmFailed, cmRequests>>
  /\ UNCHANGED cmOthers

NextMeeting ==
  \/ LinkWithoutProvider
  \/ LinkRequestSent
  \/ LinkRequestSettles
  \/ CalendarAuthFails
  \/ CalendarRequestSent
  \/ CalendarRequestSettles
  \/ SendLinkedInMessage

SpecMeeting == InitMeeting /\ [][NextMeeting]_vars

\* C17: once createMeeting is done, when the video-link provider call or the
\* calendar provider call failed, the one response is success:false with an
\* error, each provider was called at most once, and no message was handed to
\* the chat.
C17_ProviderFailureSurfaced ==
  (cmPc = "done" /\ cmFailed # {}) =>
    /\ Len(cmResponses) = 1
    /\ cmResponses[1].success = FALSE /\ "error" \in DOMAIN cmResponses[1]
    /\ cmRequests.link <= 1 /\ cmRequests.calendar <= 1
    /\ cmInjected = 0

-----------------------------------------------------------------------------
(* Claims about the boundaries of busy intervals in findAvailableSlots *)

Slot(c, d) == [start |-> c, end |-> c + d]
SlotReturned(c) == \E i \in 1..Len(slots) : slots[i] = Slot(c, duration)
\* the candidates of the half-hour grid whose slot ends by 17:00, on the days
\* of the query
GridCandidates ==
  {day * MinutesPerDay + 9 * 60 + 30 * k :
     day \in dayOf(startDate)..(dayOf(endDate) - 1), k \in 0..16}
InHoursCandidates ==
  {c \in GridCandidates : c + duration <= setHours(c, 17) /\ c < endDate}

\* C18: a candidate that ends exactly where a busy interval starts, or starts
\* exactly where it ends, and intersects no other busy interval is returned; a
\* candidate that starts where a busy interval starts is not.  With the one
\* busy interval 10:00-10:30 and duration 30 the 09:30 and 10:30 starts are
\* returned and of the candidates only the 10:00 start is left out.
C18_AbuttingAccepted ==
  fsPc = "done" =>
    /\ \A c \in InHoursCandidates : \A j \in 1..Len(busySlots) :
         /\ ((c + duration = busySlots[j].start \/ c = busySlots[j].end)
               /\ \A k \in 1..Len(busySlots) : ~Intersects(Slot(c, duration), busySlots[k]))
              => SlotReturned(c)
         /\ c = busySlots[j].start => ~SlotReturned(c)
    /\ (busySlots = <<[start |-> 10 * 60, end |-> 10 * 60 + 30]>> /\ duration = 30
          /\ dayOf(startDate) = 0)
         => \A c \in InHoursCandidates : SlotReturned(c) <=> c # 10 * 60

C18_Witness ==
  /\ fsPc = "done"
  /\ busySlots = <<[start |-> 10 * 60, end |-> 10 * 60 + 30]>>
  /\ duration = 30
  /\ dayOf(startDate) = 0
  /\ SlotReturned(9 * 60 + 30)
  /\ SlotReturned(10 * 60 + 30)
  /\ ~SlotReturned(10 * 60)

-----------------------------------------------------------------------------
(* Claims relating 'next <weekday>' to 'this <weekday>' *)

\* C19: for every reference instant and weekday name, what parseRelativeTime
\* returns for 'next <weekday>' is exactly 7 days after what it returns for
\* 'this <weekday>' with the same reference.
C19_NextIsThisPlusWeek ==
  (rtResult # Pending /\ Len(rtText) = 2
     /\ rtText[1] = W("next") /\ rtText[2].k = "w" /\ rtText[2].s \in DayNames) =>
    rtResult = DateV(parseRelativeTime(<<W("this"), rtText[2]>>, rtRef).t + 7 * MinutesPerDay)

-----------------------------------------------------------------------------
(* Claims about the timezone of localParse *)

\* the positions of the command's words that are abbreviations of the table
TableAbbreviations(cmd) ==
  {i \in 1..Len(cmd) : cmd[i].k = "w" /\ cmd[i].s \in DOMAIN timezoneMap}

\* C20: localParse sets timezone to the identifier the abbreviation table
\* gives for an abbreviation of the command, and leaves it absent when the
\* command holds no abbreviation of the table, whatever other all-caps word
\* it holds.
C20_TimezoneFromTable ==
  (pPc = "returned" /\ localResult # Pending) =>
    IF TableAbbreviations(command) = {} THEN localResult.timezone = Null
    ELSE localResult.timezone \in
           {S(timezoneMap[command[i].s]) : i \in TableAbbreviations(command)}

-----------------------------------------------------------------------------
(* Claims about the responses of processSchedulingCommand *)

\* C21: once validation has reported missing fields, the handler is done, its
\* one response is needsInput with exactly the validator's missing list and
\* the parsed request as partialData, no meeting details were generated and
\* no message-generation request was made.
C21_MissingFieldsNeedsInput ==
  (validation # Pending /\ ~validation.isValid) =>
    /\ pPc = "done"
    /\ responses = <<[needsInput |-> TRUE, missing |-> validation.missing,
                      partialData |-> parsedData]>>
    /\ validation.missing = validateMeetingData(parsedData, context).missing
    /\ meetingDetails = Pending
    /\ messageFetches = 0

C21_Witness ==
  /\ validation # Pending
  /\ validation.missing = <<"email", "time">>
  /\ Truthy(keyAtCall)
  /\ parsedData.date # Null
  /\ Len(responses) = 1
  /\ responses[1].partialData = parsedData
  /\ pPc = "done"

-----------------------------------------------------------------------------
(* Saving a credential through the settings store, then a command *)

\* the openai-key field of the settings form
SavedKeys == {S(""), S("sk-new")}

InitSettings ==
  /\ command \in CmdCommands
  /\ context \in {Null, CtxFull}
  /\ sys \in Systems
  /\ chrono \in ChronoResults(sys)
  /\ storedKey \in StoredKeys
  /\ apiKey = Null
  /\ keyLoad = "pending"
  /\ pPc = "received"
  /\ keyAtCall = Pending /\ localResult = Pending /\ parseFetchOutcome = Pending
  /\ aiOutcome = Pending /\ parsedData = Pending /\ validation = Pending
  /\ meetingDetails = Pending
  /\ parseFetches = 0 /\ messageFetches = 0 /\ responses = <<>>
  \* StorageService.defaultSettings: openaiApiKey null
  /\ userSettings = [openaiApiKey |-> Null]
  /\ SlotsIdle /\ RelIdle /\ TzIdle /\ RepeatIdle /\ SuggestIdle /\ MeetingIdle
  /\ MessagesIdle /\ EventIdle /\ VoiceIdle

\* the saveSettings message, before the command arrives: StorageService
\* .saveSettings writes the settings, the key among them, under userSettings;
\* the openaiApiKey item that loadApiKey reads is not written
SaveSettings ==
  /\ pPc = "received"
  /\ \E key \in SavedKeys : userSettings' = [openaiApiKey |-> key]
  /\ UNCHANGED <<cmdVars, slotVars, relVars, tzVars, repeatVars, suggestVars, meetingVars,
                 messageVars, eventVars, voiceVars>>

NextSettings ==
  \/ SaveSettings
  \/ LoadApiKeyResolve
  \/ LoadApiKeyReject
  \/ ProcessCommandLocal
  \/ ProcessCommandFetch
  \/ ParseFetchSettles
  \/ MessageFetchSettles

SpecSettings == InitSettings /\ [][NextSettings]_vars

\* C22: a command that arrives after a non-empty credential was saved through
\* the settings takes the refinement path, with one call of the model
\* endpoint; a command takes the local-only path only when no credential is
\* configured, in the settings or in the item loadApiKey reads.
C22_SavedCredentialUsed ==
  keyAtCall # Pending =>
    /\ Truthy(userSettings.openaiApiKey) => parseFetches = 1
    /\ parseFetches = 0 => ~Truthy(userSettings.openaiApiKey) /\ ~Truthy(storedKey)

-----------------------------------------------------------------------------
(* Termination of findAvailableSlots *)

\* durations that reach past 17:00 from 09:00 on, and past midnight
LongDurations == {7 * 60, 10 * 60}

InitSlotsLong ==
  /\ startDate \in StartDates
  /\ endDate \in EndDates(startDate)
  /\ busySlots \in {b \in BusyLists : Len(b) <= 1}
  /\ duration \in Durations \cup LongDurations
  /\ currentTime = setHours(startDate, businessHoursStart)
  /\ slots = <<>>
  /\ fsPc = "loop"
  /\ RelIdle /\ TzIdle /\ CmdIdle /\ ExtraIdle

\* the loop runs on as long as it can: the function is synchronous
SpecSlotsLive == InitSlotsLong /\ [][NextSlots]_vars /\ WF_vars(NextSlots)

\* C23: every iteration of the loop of findAvailableSlots moves currentTime
\* strictly forward, the rollover to the next day's 09:00 included, and the
\* function returns.
C23_FindSlotsTerminates ==
  /\ [][fsPc' = "loop" => currentTime' > currentTime]_vars
  /\ <>(fsPc = "done")

\* returned after rollovers only: no candidate of a 10-hour slot is in hours
C23_Witness ==
  /\ fsPc = "done"
  /\ duration = 10 * 60
  /\ currentTime >= endDate
  /\ currentTime > setHours(startDate, businessHoursStart) + MinutesPerDay

-----------------------------------------------------------------------------
(* BackgroundService.handleMessage and its handlers *)

\* The steps of a handler's try block, in order: a call that may throw
\* (awaited when async: it settles later, resolved or rejected), a
\* sendResponse followed by return under a condition, the final sendResponse.
\* Every handler's catch block is one sendResponse.
Call(async, throws) == [op |-> "call", async |-> async, throws |-> throws]
RespondIf == [op |-> "respondIf", async |-> FALSE, throws |-> FALSE]
Respond == [op |-> "respond", async |-> FALSE, throws |-> FALSE]

Handlers ==
  [startVoiceRecognition |-> <<Respond>>,
   processSchedulingCommand |->
     <<Call(TRUE, FALSE),    \* await parseSchedulingRequest: catches and returns null
       RespondIf,            \* if (!parsedData)
       Call(FALSE, TRUE),    \* validateMeetingData
       RespondIf,            \* if (!validation.isValid)
       Call(TRUE, TRUE),     \* await generateMeetingDetails
       Respond>>,
   createMeeting |->
     <<Call(FALSE, TRUE),    \* switch (details.platform)
       Call(TRUE, FALSE),    \* await meetingPlatform.create...: catches
       Call(TRUE, TRUE),     \* await calendarService.createEvent
       Call(FALSE, TRUE),    \* insertMeetingLinkInMessage
       Call(TRUE, TRUE),     \* await sendLinkedInMessage
       Respond>>,
   checkAvailability |-> <<Call(TRUE, FALSE), Respond>>,
   saveSettings |-> <<Call(TRUE, FALSE), Respond>>,
   getSettings |-> <<Call(TRUE, FALSE), Respond>>,
   getMeetingHistory |-> <<Call(TRUE, FALSE), Respond>>]

\* request.action: a handled action, any other, or no request object at all
Requests == DOMAIN Handlers \cup {"somethingElse", "noRequest"}
MessageIds == {"m1", "m2"}

InitMessages ==
  /\ msgs \in [MessageIds -> {[action |-> a, at |-> "received", step |-> 0, responses |-> 0] :
                               a \in Requests}]
  /\ SlotsIdle /\ RelIdle /\ TzIdle /\ CmdIdle /\ RepeatIdle /\ SuggestIdle /\ MeetingIdle
  /\ SettingsIdle /\ EventIdle /\ VoiceIdle

msgOthers == <<slotVars, relVars, tzVars, cmdVars, repeatVars, suggestVars, meetingVars,
               settingsVars, eventVars, voiceVars>>

\* a sendResponse call that ends the handler
Responded(m) == [m EXCEPT !.at = "done", !.responses = @ + 1]
\* a catch block that swallows the error
HandlerCatchSilent(m) == [m EXCEPT !.at = "done"]
\* the handler's catch block: sendResponse({ error: error.message })
HandlerCatch(m) == [m EXCEPT !.at = "done", !.responses = @ + 1]

\* handleMessage: the switch enters a handler, answers 'Unknown action', or
\* request.action throws and handleMessage's own catch answers
Dispatch(id) ==
  /\ msgs[id].at = "received"
  /\ msgs' = [msgs EXCEPT ![id] =
       IF @.action \in DOMAIN Handlers THEN [@ EXCEPT !.at = "running", !.step = 1]
       ELSE Responded(@)]
  /\ UNCHANGED msgOthers

\* a synchronous call returns or throws; an awaited call is started
StepCall(id) ==
  LET m == msgs[id] IN
  /\ m.at = "running"
  /\ Handlers[m.action][m.step].op = "call"
  /\ \E throw \in BOOLEAN :
       /\ throw => Handlers[m.action][m.step].throws /\ ~Handlers[m.action][m.step].async
       /\ msgs' = [msgs EXCEPT ![id] =
            IF Handlers[m.action][m.step].async THEN [@ EXCEPT !.at = "awaiting"]
            ELSE IF throw THEN HandlerCatch(@)
            ELSE [@ EXCEPT !.step = @ + 1]]
  /\ UNCHANGED msgOthers

\* the awaited call settles: resolved, or rejected into the catch block
AwaitSettles(id) ==
  LET m == msgs[id] IN
  /\ m.at = "awaiting"
  /\ \E rejected \in BOOLEAN :
       /\ rejected => Handlers[m.action][m.step].throws
       /\ msgs' = [msgs EXCEPT ![id] =
            IF rejected THEN HandlerCatch(@)
            ELSE [@ EXCEPT !.at = "running", !.step = @ + 1]]
  /\ UNCHANGED msgOthers

\* if (...) { sendResponse(...); return; }
StepRespondIf(id) ==
  LET m == msgs[id] IN
  /\ m.at = "running"
  /\ Handlers[m.action][m.step].op = "respondIf"
  /\ \E taken \in BOOLEAN :
       msgs' = [msgs EXCEPT ![id] =
         IF taken THEN Responded(@) ELSE [@ EXCEPT !.step = @ + 1]]
  /\ UNCHANGED msgOthers

\* the sendResponse that ends the try block
StepRespond(id) ==
  LET m == msgs[id] IN
  /\ m.at = "running"
  /\ Handlers[m.action][m.step].op = "respond"
  /\ msgs' = [msgs EXCEPT ![id] = Responded(@)]
  /\ UNCHANGED msgOthers

NextMessages ==
  \E id \in MessageIds :
    \/ Dispatch(id)
    \/ StepCall(id)
    \/ AwaitSettles(id)
    \/ StepRespondIf(id)
    \/ StepRespond(id)

\* every handler runs on and every awaited call settles
SpecMessages ==
  InitMessages /\ [][NextMessages]_vars
    /\ \A id \in MessageIds :
         WF_vars(Dispatch(id) \/ StepCall(id) \/ AwaitSettles(id) \/ StepRespondIf(id)
                   \/ StepRespond(id))

\* C24: for every message, sendResponse is never called more than once, and
\* when every awaited call settles it is called exactly once.
C24_OneResponsePerMessage ==
  \A id \in MessageIds :
    /\ [](msgs[id].responses <= 1)
    /\ <>[](msgs[id].at = "done" /\ msgs[id].responses = 1)

\* one message answered from a catch block after a rejected call, the other
\* by the default branch
C24_Witness ==
  /\ msgs["m1"].action = "createMeeting" /\ msgs["m1"].step = 3
  /\ msgs["m1"].at = "done" /\ msgs["m1"].responses = 1
  /\ msgs["m2"].action = "somethingElse"
  /\ msgs["m2"].at = "done" /\ msgs["m2"].responses = 1

-----------------------------------------------------------------------------
(* localParse over the hours of the day *)

\* chrono.parse found one expression with a certain time, at any hour of the
\* local day
HourlyChronoResults(system) ==
  {<<[t |-> Wall(8, h, m, system), certainHour |-> TRUE]>> : h \in 0..23, m \in {0, 30}}

InitHours ==
  /\ command \in RepeatCommands
  /\ context \in {Null, CtxFull}
  /\ sys \in Systems
  /\ chrono \in HourlyChronoResults(sys)
  /\ storedKey = Idle /\ apiKey = Idle /\ keyLoad = "idle"
  /\ pPc = "localParse"
  /\ keyAtCall = Idle /\ localResult = Pending /\ parseFetchOutcome = Idle
  /\ aiOutcome = Idle /\ parsedData = Idle /\ validation = Idle /\ meetingDetails = Idle
  /\ parseFetches = 0 /\ messageFetches = 0 /\ responses = <<>>
  /\ SlotsIdle /\ RelIdle /\ TzIdle /\ ExtraIdle

SpecHours == InitHours /\ [][NextParse]_vars

\* the calendar date and the time of day of instant t on a clock at `offset`
DateOn(t, offset) == DateStr(dayOf(t + offset))
TimeOn(t, offset) == TimeStr(((t + offset) % MinutesPerDay) \div 60, (t + offset) % 60)

\* C25: when localParse returns both date and time, they are the calendar
\* date and the time of day of the parsed instant on one and the same clock
\* (the system's or UTC).
C25_DateAndTimeSameZone ==
  (pPc = "returned" /\ localResult.date # Null /\ localResult.time # Null) =>
    \E offset \in {sys.offset, 0} :
      /\ localResult.date = DateOn(chrono[1].t, offset)
      /\ localResult.time = TimeOn(chrono[1].t, offset)

-----------------------------------------------------------------------------
(* CalendarService.createEvent *)

\* A dateTime string without zone designator, 'YYYY-MM-DDTHH:mm:ss', is the
\* wall-clock minute it spells.
LocalDateTime(wall) == [k |-> "datetime", wall |-> wall]

\* new Date(dateTimeString): a string without designator is read on the
\* system's clock; the instant in minutes of UTC
NewDateLocal(str, system) == str.wall - system.offset
\* toISOString().slice(0, -5): the UTC wall clock of the instant, without 'Z'
toISOStringSliced(t) == LocalDateTime(t)

\* the end of the event createEvent builds
EventEnd(details, system) ==
  LET startDateTime == NewDateLocal(details.start.dateTime, system)
      endDateTime == startDateTime + details.duration
  IN [dateTime |-> toISOStringSliced(endDateTime), timeZone |-> details.start.timeZone]

EventOf(details, system) ==
  [summary |-> details.summary,
   start |-> [dateTime |-> details.start.dateTime, timeZone |-> details.start.timeZone],
   end |-> EventEnd(details, system),
   attendees |-> details.attendees]

EventStarts == {LocalDateTime(8 * MinutesPerDay + h * 60 + 30) : h \in {0, 9, 14, 23}}
EventDurations == {15, 30, 60, 90}
EventDetails ==
  {[summary |-> "Meeting with Ann",
    start |-> [dateTime |-> st, timeZone |-> z.timeZone],
    duration |-> d,
    attendees |-> a] :
     st \in EventStarts, z \in Zones, d \in EventDurations, a \in {<<>>, <<"ann@x.com">>}}

evOthers == <<slotVars, relVars, tzVars, cmdVars, repeatVars, suggestVars, meetingVars,
              settingsVars, messageVars, voiceVars>>

InitEvent ==
  /\ evDetails \in EventDetails
  /\ evSystem \in Systems
  /\ evPc = "called"
  /\ evSent = Pending
  /\ SlotsIdle /\ RelIdle /\ TzIdle /\ CmdIdle /\ RepeatIdle /\ SuggestIdle /\ MeetingIdle
  /\ SettingsIdle /\ MessagesIdle /\ VoiceIdle

\* await this.ensureAuthenticated(): a token is there or authenticate() settles
EnsureAuthenticated ==
  /\ evPc = "called"
  /\ \E ok \in BOOLEAN : evPc' = IF ok THEN "authenticated" ELSE "thrown"
  /\ UNCHANGED <<evDetails, evSystem, evSent>>
  /\ UNCHANGED evOthers

\* the event is built and posted
PostEvent ==
  /\ evPc = "authenticated"
  /\ evSent' = EventOf(evDetails, evSystem)
  /\ evPc' = "sent"
  /\ UNCHANGED <<evDetails, evSystem>>
  /\ UNCHANGED evOthers

NextEvent == EnsureAuthenticated \/ PostEvent

SpecEvent == InitEvent /\ [][NextEvent]_vars

\* C26: the event sent to the calendar ends exactly duration minutes after it
\* starts, both read as wall-clock times in the event's timeZone.
C26_EventEndsAfterDuration ==
  evPc = "sent" =>
    /\ evSent.end.timeZone = evSent.start.timeZone
    /\ evSent.end.dateTime.wall = evSent.start.dateTime.wall + evDetails.duration

-----------------------------------------------------------------------------
(* VoiceInputController *)

\* clicks on the microphone button during one stay on the page
MaxClicks == 3
Clicks == 1..MaxClicks

vcOthers == <<slotVars, relVars, tzVars, cmdVars, repeatVars, suggestVars, meetingVars,
              settingsVars, messageVars, eventVars>>

\* constructor: the recognizer exists where the browser supports it
InitVoice ==
  /\ recognition \in {"unsupported", "inactive"}
  /\ isListening = FALSE
  /\ micStream = Null
  /\ toggles = [c \in Clicks |-> "notClicked"]
  /\ streams = [c \in Clicks |-> "none"]
  /\ SlotsIdle /\ RelIdle /\ TzIdle /\ CmdIdle /\ RepeatIdle /\ SuggestIdle /\ MeetingIdle
  /\ SettingsIdle /\ MessagesIdle /\ EventIdle

\* recognition.stop(): a started recognizer goes on to its end event
RecognitionStop(r) == IF r \in {"starting", "listening"} THEN "stopping" ELSE r
\* recognition.start() throws when the recognizer has already been started
StartThrows(r) == r # "inactive"

\* toggleVoiceRecognition up to its first await
Click(c) ==
  /\ toggles[c] = "notClicked"
  /\ IF recognition = "unsupported"
       THEN /\ toggles' = [toggles EXCEPT ![c] = "returned"]
            /\ UNCHANGED recognition
       ELSE IF isListening
         THEN /\ recognition' = RecognitionStop(recognition)
              /\ toggles' = [toggles EXCEPT ![c] = "returned"]
         ELSE /\ toggles' = [toggles EXCEPT ![c] = "getUserMedia"]
              /\ UNCHANGED recognition
  /\ UNCHANGED <<isListening, micStream, streams>>
  /\ UNCHANGED vcOthers

\* getUserMedia resolves with a new stream; the rest of the try block
GetUserMediaResolves(c) ==
  /\ toggles[c] = "getUserMedia"
  /\ streams' = [streams EXCEPT ![c] = "live"]
  /\ micStream' = N(c)
  /\ recognition' = IF StartThrows(recognition) THEN recognition ELSE "starting"
  /\ toggles' = [toggles EXCEPT ![c] = "returned"]
  /\ UNCHANGED isListening
  /\ UNCHANGED vcOthers

\* getUserMedia rejects; the catch block
GetUserMediaRejects(c) ==
  /\ toggles[c] = "getUserMedia"
  /\ toggles' = [toggles EXCEPT ![c] = "returned"]
  /\ UNCHANGED <<recognition, isListening, micStream, streams>>
  /\ UNCHANGED vcOthers

\* recognition.onstart
OnStart ==
  /\ recognition = "starting"
  /\ isListening' = TRUE
  /\ recognition' = "listening"
  /\ UNCHANGED <<micStream, toggles, streams>>
  /\ UNCHANGED vcOthers

\* recognition.onerror; the end event follows it
OnError ==
  /\ recognition \in {"starting", "listening", "stopping"}
  /\ isListening' = FALSE
  /\ recognition' = "errored"
  /\ UNCHANGED <<micStream, toggles, streams>>
  /\ UNCHANGED vcOthers

\* recognition.onend
OnEnd ==
  /\ recognition \in {"listening", "stopping", "errored"}
  /\ isListening' = FALSE
  /\ streams' = IF Truthy(micStream) THEN [streams EXCEPT ![micStream.v] = "stopped"]
                                     ELSE streams
  /\ micStream' = Null
  /\ recognition' = "inactive"
  /\ UNCHANGED toggles
  /\ UNCHANGED vcOthers

NextVoice ==
  \/ \E c \in Clicks : Click(c)
  \/ \E c \in Clicks : GetUserMediaResolves(c)
  \/ \E c \in Clicks : GetUserMediaRejects(c)
  \/ OnStart
  \/ OnError
  \/ OnEnd

SpecVoice == InitVoice /\ [][NextVoice]_vars

\* C27: once recognition has ended and no toggle is still in progress, every
\* microphone stream that was acquired has had its tracks stopped.
C27_AcquiredStreamsStopped ==
  (/\ recognition \in {"inactive", "unsupported"}
   /\ \A c \in Clicks : toggles[c] # "getUserMedia") =>
     \A c \in Clicks : streams[c] # "live"

====
